---- MODULE Spec2Model ----
(***************************************************************************)
(* Structura: the documentation pipeline (tui: processFiles,               *)
(* continueProcessing, Model.Update) driving the rate-limited, retrying    *)
(* API client (api: enforceRateLimit, makeAPIRequest,                      *)
(* GenerateDocumentation) over the files of an input tree, writing one     *)
(* artifact per file under the output root.                                *)
(*                                                                         *)
(* Time is counted in seconds.  The client's lastAPICall is kept as the    *)
(* time elapsed since it (saturated at APIRateLimit, the only value it is  *)
(* ever compared with).  A path is a sequence of components and a          *)
(* component a sequence of string tokens, so that appending ".md" to a     *)
(* base name is sequence concatenation.  The input and the output root     *)
(* are disjoint trees.                                                     *)
(***************************************************************************)
EXTENDS Integers, Sequences, FiniteSets, TLC

\* ----------------------------------------------------------------- bounds
MaxFiles == 2
MaxRetriesBound == 2
MaxAttempts == 3
MaxKeyErrors == 2
MaxEntries == 2
MaxNegative == 1

\* ---------------------------------------------------------- configuration
\* config.Config.APIRateLimit, in seconds
APIRateLimit == 2

\* ------------------------------------------------------ api.APIType, models
APITypeDeepseek == "deepseek"
APITypeChatGPT == "chatgpt"
APITypeGemini == "gemini"

\* api.APITypes(), the list Model.apiTypes is built from
APITypes == <<APITypeDeepseek, APITypeChatGPT, APITypeGemini>>

\* api.APIModelMap
APIModelMap(t) ==
    IF t = APITypeDeepseek THEN <<"deepseek-chat", "deepseek-coder">>
    ELSE IF t = APITypeChatGPT THEN <<"gpt-3.5-turbo", "gpt-4", "gpt-4-turbo", "gpt-4o">>
    ELSE IF t = APITypeGemini THEN <<"gemini-pro", "gemini-1.5-pro">>
    ELSE <<>>

ModelsOfFirst(types, selected) == APIModelMap(types[1])

\* api.APIModelMap[m.apiTypes[m.selectedAPIType]], the index counted from 0
ModelsOf(types, selected) == APIModelMap(types[selected + 1])

\* config.NewConfig(): Config.OpenAIModel gets one fixed string there, which
\* the session never assigns again; here the empty string or any of the
\* ChatGPT model names
DefaultOpenAIModels ==
    {""} \cup {APIModelMap(APITypeChatGPT)[j] : j \in 1..Len(APIModelMap(APITypeChatGPT))}

\* --------------------------------------------------------------- tui.State
StateInit == "StateInit"
StateSelectAPIType == "StateSelectAPIType"
StateSelectAPIModel == "StateSelectAPIModel"
StateEnterAPIKey == "StateEnterAPIKey"
StateSelectProjectType == "StateSelectProjectType"
StateSelectInputDir == "StateSelectInputDir"
StateEnterInputDir == "StateEnterInputDir"
StateEnterOutputDir == "StateEnterOutputDir"
StateProcessing == "StateProcessing"
StateDone == "StateDone"

\* ------------------------------------------------------------------- paths
inputDir == << <<"in">> >>
outputDir == << <<"out">> >>

\* the i-th entry of the input tree in walk (lexical) order: in/f1, in/pkg/f2, ...
SourcePath(i) ==
    inputDir \o (IF i = 1 THEN <<>> ELSE << <<"pkg">> >>) \o << <<"f", ToString(i)>> >>

\* filehandler.FileInfo (Content and Size play no part in scheduling)
FileInfo(i) == [Path |-> SourcePath(i), IsDir |-> FALSE]

\* the file list a successful walk of a tree of n files returns
TraverseDirectory(n) == [i \in 1..n |-> FileInfo(i)]

\* ------------------------------------------------- the directory walk
\* TraverseDirectory: the size from which on a file's content is not read
Ceiling == 5 * 1024 * 1024

\* what filepath.Walk can hand to the callback for one entry below the
\* root: a file of some size that os.ReadFile can or cannot read, a
\* directory, an entry ShouldIgnore matches, an entry it could not visit
Sizes == {Ceiling - 1, Ceiling, Ceiling + 1}

WalkEntries ==
    [kind : {"file"}, size : Sizes, readable : BOOLEAN]
        \cup {[kind |-> k, size |-> 0, readable |-> TRUE] : k \in {"dir", "ignored", "broken"}}

BelowCeilingInclusive(size) == size <= Ceiling

\* TraverseDirectory: info.Size() < 5*1024*1024
BelowCeiling(size) == size < Ceiling

\* TraverseDirectory: the FileInfo appended for the i-th entry, a file
ReadFileInfo(e, i) ==
    [Path |-> SourcePath(i),
     Size |-> e.size,
     IsDir |-> FALSE,
     Content |-> IF BelowCeiling(e.size) /\ e.readable THEN "text" ELSE ""]

\* filepath.Walk with TraverseDirectory's callback over the entries from
\* the i-th on, files being the list built so far: the list and the error
\* TraverseDirectory returns
RECURSIVE Walk(_, _, _)
Walk(entries, i, fl) ==
    IF i > Len(entries) THEN [files |-> fl, err |-> FALSE]
    ELSE IF entries[i].kind = "broken" THEN [files |-> fl, err |-> TRUE]
    ELSE IF entries[i].kind \in {"ignored", "dir"} THEN Walk(entries, i + 1, fl)
    ELSE Walk(entries, i + 1, Append(fl, ReadFileInfo(entries[i], i)))

NoWalk == [entries |-> <<>>, done |-> FALSE, files |-> <<>>, err |-> FALSE]

\* filepath.Rel(base, path) for a path below base
Rel(base, path) == SubSeq(path, Len(base) + 1, Len(path))

\* filepath.Dir of a relative path (the empty sequence stands for ".")
Dir(rel) == SubSeq(rel, 1, Len(rel) - 1)

\* filepath.Base
Base(path) == path[Len(path)]

\* continueProcessing: outputPath, the directory the artifact goes to
OutputPath(path) == outputDir \o Dir(Rel(inputDir, path))

OutputFileFlat(path) == outputDir \o << Base(path) \o <<".md">> >>

\* continueProcessing: outputFile = Join(outputPath, Base(path) + ".md")
OutputFile(path) == OutputPath(path) \o << Base(path) \o <<".md">> >>

\* generateStructureDocumentation: the two summary artifacts
StructureFile == outputDir \o << <<"PROJECT_STRUCTURE", ".md">> >>
SetupFile == outputDir \o << <<"PROJECT_SETUP", ".md">> >>

\* ------------------------------------------------------- provider outcomes
\* status codes a provider answers with
Statuses == {200, 204, 302, 401, 403, 429, 500}

\* bodies of a 200 answer: a well-formed answer with content, a well-formed
\* answer whose first choice has empty content, a body that is not JSON,
\* a JSON body with zero choices
Bodies200 == {"doc", "empty", "malformed", "nochoices"}

NetworkError == [neterr |-> TRUE, status |-> 0, body |-> "none"]
Response(s, b) == [neterr |-> FALSE, status |-> s, body |-> b]

\* what one Post can come back with
Outcomes ==
    {NetworkError} \cup {Response(200, b) : b \in Bodies200}
                   \cup {Response(s, "raw") : s \in Statuses \ {200}}

\* ------------------------------------------------------------ types.APIError
NilError ==
    [isNil |-> TRUE, StatusCode |-> 0, IsRateLimit |-> FALSE,
     IsInvalidKey |-> FALSE, IsNetworkError |-> FALSE]

APIError(status, rate, key, net) ==
    [isNil |-> FALSE, StatusCode |-> status, IsRateLimit |-> rate,
     IsInvalidKey |-> key, IsNetworkError |-> net]

\* fmt.Errorf("API request failed after %d attempts"): an error that is
\* not a *types.APIError
AttemptsError == [NilError EXCEPT !.isNil = FALSE]

VARIABLES
    MaxRetries,      \* config.Config.MaxRetries of the session
    apiKey,          \* the credential of the selected provider ("" when empty)
    tree,            \* number of files below the input root
    fs,              \* the output root: destination path -> content
    dirs,            \* the directories of the output root that exist
    state,           \* Model.state
    files,           \* Model.files
    processedFiles,  \* Model.processedFiles
    errors,          \* Model.errors
    client,          \* the API client: time since lastAPICall, dispatch history
    cmds,            \* the tea.Cmds handed to the runtime and not yet consumed
    quit,            \* the program has exited (tea.Quit)
    run,             \* which session over these roots this is
    prev,            \* what the previous session left behind
    events,          \* outcome messages handled by Update in this session
    reqs,            \* requests dispatched in this session
    finalized,       \* calls of generateStructureDocumentation in this session
    other,           \* a second process running over the same roots: its step
    config,          \* Model.config: APIType, APIModel, OpenAIModel
    menu,            \* Model.selectedAPIType, Model.selectedModel (from 0), Model.apiModels,
                     \* and whether Model.apiClient is set
    envelopes,       \* the model fields of the requests dispatched in this session
    walk             \* a directory walk: the entries visited, the result once made

vars ==
    <<MaxRetries, apiKey, tree, fs, dirs, state, files, processedFiles, errors,
      client, cmds, quit, run, prev, events, reqs, finalized, other,
      config, menu, envelopes, walk>>


\* ------------------------------------------------------------------ helpers
Min(a, b) == IF a < b THEN a ELSE b

\* elapsed times are kept up to APIRateLimit: beyond it they all act alike
Saturate(t) == Min(t, APIRateLimit)

Remove(seq, k) == [j \in 1..(Len(seq) - 1) |-> IF j < k THEN seq[j] ELSE seq[j + 1]]

\* an entry of a call's log: a dispatch, the answer to it, or a sleep
Event(ev, attempt, val) == [ev |-> ev, attempt |-> attempt, val |-> val]

\* ------------------------------------------------------- Model.errors entries
\* an entry is a text: it names the operation that failed, a path (the
\* source file for GenerateDocumentation, the destination for os.WriteFile,
\* the output directory for os.MkdirAll) and the cause
ErrorEntry(op, path, cause) == [op |-> op, path |-> path, cause |-> cause]

NoEntry == ErrorEntry("none", <<>>, "none")

\* --------------------------------------------------------------- tea.Msg
NoMsg == [type |-> "none", files |-> <<>>, path |-> <<>>, kind |-> "none", entry |-> NoEntry]

filesLoadedMsg(fl) == [NoMsg EXCEPT !.type = "filesLoaded", !.files = fl]

\* fileProcessedMsg(currentFile) and fileProcessedMsg(currentFile + " (already documented, skipped)")
fileProcessedMsg(path, kind) == [NoMsg EXCEPT !.type = "fileProcessed", !.path = path, !.kind = kind]

\* fileErrorMsg(text) of the step of the file at path
fileErrorMsg(path, entry) ==
    [NoMsg EXCEPT !.type = "fileError", !.path = path, !.kind = "failed", !.entry = entry]

\* --------------------------------------------------------------- tea.Cmd
\* a command: the closure's captured file list and captured
\* m.processedFiles, where it stands, the locals of the makeAPIRequest
\* call it is in (attempt, lastErr), what that call did (log) and returned
\* (ret), and the message the command ends with
Cmd(kind, fl, snap) ==
    [kind |-> kind, files |-> fl, snap |-> snap, pc |-> "start", idx |-> 0,
     attempt |-> 0, lastErr |-> NilError, log |-> <<>>,
     ret |-> [done |-> FALSE, ok |-> FALSE, err |-> NilError, body |-> "none"],
     msg |-> NoMsg]

processFilesCmd == Cmd("processFiles", <<>>, 0)

\* continueProcessing(filesLoadedMsg{files: fl}, m) with m.processedFiles = snap
continueProcessing(fl, snap) == Cmd("continueProcessing", fl, snap)

\* ---------------------------------------------------------- the API client
\* NewDeepseekClient / NewChatGPTClient: lastAPICall = now - APIRateLimit
NewClient == [elapsed |-> Saturate(APIRateLimit), gap |-> 0, sent |-> 0]

enforceRateLimitNoSleep(elapsed) == elapsed

\* enforceRateLimit: the time since the previous lastAPICall at the moment
\* lastAPICall is set again, after sleeping for the remainder if any
enforceRateLimit(elapsed) ==
    IF elapsed < APIRateLimit
    THEN elapsed + (APIRateLimit - elapsed)
    ELSE elapsed

LoopConditionOffByOne(attempt, maxRetries) == attempt <= maxRetries

\* makeAPIRequest: the loop condition
LoopCondition(attempt, maxRetries) == attempt < maxRetries

ShlOne(attempt) == 1

\* 1 << uint(attempt)
Shl(attempt) == 2 ^ attempt

IsAuthStatusOnly401(status) == status = 401

\* makeAPIRequest: the switch's cases 401 and 403
IsAuthStatus(status) == status \in {401, 403}

IsRateLimitStatusOr500(status) == status \in {429, 500}

\* makeAPIRequest: the switch's case 429
IsRateLimitStatus(status) == status = 429

SetLastErrKeepFirst(old, new) == IF old.isNil THEN new ELSE old

\* makeAPIRequest: lastErr = apiErr, lastErr = &APIError{...}
SetLastErr(old, new) == new

IsStatusOKAny2xx(status) == status \in {200, 204}

\* makeAPIRequest: resp.StatusCode == http.StatusOK
IsStatusOK(status) == status = 200

RateLimitWaitFlat(attempt) == APIRateLimit

\* makeAPIRequest, case 429: time.Duration(attempt+1) * APIRateLimit
RateLimitWait(attempt) == (attempt + 1) * APIRateLimit

\* makeAPIRequest: the loop body after Post came back with outcome o at
\* index attempt: return (ok or err) or go on to the next iteration with
\* lastErr set, after sleeping `sleep` seconds (why: the 429 wait or the
\* exponential backoff)
LoopBody(o, attempt, maxRetries) ==
    IF ~o.neterr
    THEN IF IsStatusOK(o.status)
         THEN [next |-> "return", err |-> NilError, sleep |-> 0, why |-> "none"]
         ELSE IF IsAuthStatus(o.status)
         THEN [next |-> "return", err |-> APIError(o.status, FALSE, TRUE, FALSE),
               sleep |-> 0, why |-> "none"]
         ELSE IF IsRateLimitStatus(o.status)
         THEN [next |-> "continue", err |-> APIError(o.status, TRUE, FALSE, FALSE),
               sleep |-> RateLimitWait(attempt), why |-> "ratelimit"]
         ELSE [next |-> "return", err |-> APIError(o.status, FALSE, FALSE, FALSE),
               sleep |-> 0, why |-> "none"]
    ELSE [next |-> "continue", err |-> APIError(0, FALSE, FALSE, TRUE),
          sleep |-> IF attempt < maxRetries - 1 THEN Shl(attempt) ELSE 0,
          why |-> "backoff"]

AfterLoopLastErr(lastErr) == lastErr

\* makeAPIRequest after the loop: lastErr if it is set, the error
\* "API request failed after %d attempts" otherwise
AfterLoop(lastErr) == IF ~lastErr.isNil THEN lastErr ELSE AttemptsError

\* GenerateDocumentation: the error it returns for the error of
\* makeAPIRequest (an error that is no APIError is returned as it is)
FriendlyError(err) ==
    IF err.isNil THEN "none"
    ELSE IF err = AttemptsError THEN "attempts"
    ELSE IF err.IsInvalidKey THEN "invalid key"
    ELSE IF err.IsRateLimit THEN "rate limit"
    ELSE IF err.IsNetworkError THEN "network"
    ELSE "status"

NoChoicesNever(body) == FALSE

\* GenerateDocumentation: len(response.Choices) == 0
NoChoices(body) == body = "nochoices"

ParseResponseNoText(body) ==
    IF body = "malformed" THEN [ok |-> FALSE, cause |-> "parse", text |-> "none"]
    ELSE IF NoChoices(body) THEN [ok |-> FALSE, cause |-> "no choices", text |-> "none"]
    ELSE [ok |-> TRUE, cause |-> "none", text |-> "none"]

\* GenerateDocumentation: decoding the body of a 200 answer
ParseResponse(body) ==
    IF body = "malformed" THEN [ok |-> FALSE, cause |-> "parse", text |-> "none"]
    ELSE IF NoChoices(body) THEN [ok |-> FALSE, cause |-> "no choices", text |-> "none"]
    ELSE [ok |-> TRUE, cause |-> "none", text |-> body]

\* --------------------------------------------------------- the output root
\* the content of a file: what it holds, for which source, written in which session
Content(text, path, r) == [text |-> text, src |-> path, run |-> r]

Exists(f, dst) == dst \in DOMAIN f

\* os.MkdirAll, succeeding: the directory and its parents exist afterwards
MkdirAll(ds, dir) == ds \cup {SubSeq(dir, 1, n) : n \in 1..Len(dir)}

WriteFile(f, dst, content) ==
    [d \in DOMAIN f \cup {dst} |-> IF d = dst THEN content ELSE f[d]]

\* os.WriteFile can succeed, fail before the file is created, or fail
\* after it was created or truncated
WriteOutcomes == {"ok", "nofile", "partial"}

\* generateStructureDocumentation: writes the two summary artifacts
generateStructureDocumentation(f, r) ==
    WriteFile(WriteFile(f, StructureFile, Content("structure", <<>>, r)),
              SetupFile, Content("setup", <<>>, r))

\* continueProcessing: the closure's loop over files from (1-based) index i
\* with local m.processedFiles = p; the index of the file it stops at, 0
\* when the loop runs off the end
RECURSIVE NextFile(_, _, _)
NextFile(fl, i, p) ==
    IF i > Len(fl) THEN 0
    ELSE IF i - 1 < p THEN NextFile(fl, i + 1, p)
    ELSE IF fl[i].IsDir THEN NextFile(fl, i + 1, p + 1)
    ELSE i


AlreadyDocumentedNever(f, dst) == FALSE

\* continueProcessing: the check whether the file has already been documented
AlreadyDocumented(f, dst) == Exists(f, dst)

\* makeAPIRequest returned: what the call gave back
Returned(ok, err) == [done |-> TRUE, ok |-> ok, err |-> err, body |-> "none"]

\* makeAPIRequest returning the body of a 200 answer and a nil error
ReturnedBody(body) == [Returned(TRUE, NilError) EXCEPT !.body = body]

\* continueProcessing: the message for a failed GenerateDocumentation
GenerateFailed(path, cause) == fileErrorMsg(path, ErrorEntry("generate", path, cause))

EmptyFS == [d \in {} |-> Content("none", <<>>, 0)]

\* an entry of Model.errors that a remote call caused: GenerateDocumentation
\* failed after a request was dispatched
RemoteFailure(e) == e.op = "generate" /\ e.cause # "key not set"

\* what is known of the session before this one: whether there was one,
\* whether it finished, whether it walked the input root, whether it
\* recorded no error, whether it recorded no error of a remote call, and
\* the files it left
NoPrev ==
    [valid |-> FALSE, done |-> FALSE, walked |-> FALSE, clean |-> FALSE,
     remoteClean |-> FALSE, fs |-> EmptyFS]

\* -------------------------------------------------------------------- Init
\* a session that has created its client and is asking for the output
\* directory, over an input tree of up to MaxFiles files and an empty
\* output root
\* the second process: the index of the file its step is at and where in
\* the step it stands (before os.Stat, in GenerateDocumentation, before
\* os.WriteFile, inside os.WriteFile with the file opened and truncated)
OtherStart == [idx |-> 1, pc |-> "stat"]

\* the state when the output directory is about to be entered, for a
\* configuration with MaxRetries among retries
Start(retries) ==
    /\ MaxRetries \in retries
    /\ apiKey \in {"", "key"}
    /\ tree \in 0..MaxFiles
    /\ fs = EmptyFS
    /\ dirs = {}
    /\ state = StateEnterOutputDir
    /\ files = <<>>
    /\ processedFiles = 0
    /\ errors = <<>>
    /\ client = NewClient
    /\ cmds = <<>>
    /\ quit = FALSE
    /\ run = 1
    /\ prev = NoPrev
    /\ events = <<>>
    /\ reqs = 0
    /\ finalized = 0
    /\ other = OtherStart
    /\ config = [APIType |-> APITypeDeepseek, APIModel |-> APIModelMap(APITypeDeepseek)[1],
                 OpenAIModel |-> ""]
    /\ menu = [selectedAPIType |-> 0, selectedModel |-> 0, apiClient |-> TRUE,
               apiModels |-> ModelsOf(APITypes, 0)]
    /\ envelopes = {}
    /\ walk = NoWalk

Init == Start(1..MaxRetriesBound)

\* ----------------------------------------------------------------- actions
\* Update, tea.KeyMsg Enter in StateEnterOutputDir with the directory
\* created: start processing
EnterOutputDir ==
    /\ ~quit
    /\ state = StateEnterOutputDir
    /\ dirs' = MkdirAll(dirs, outputDir)
    /\ state' = StateProcessing
    /\ cmds' = Append(cmds, processFilesCmd)
    /\ UNCHANGED <<walk, config, menu, envelopes, other, MaxRetries, apiKey, tree, fs, files, processedFiles, errors,
                   client, quit, run, prev, events, reqs, finalized>>

processFilesIgnoringError(c) ==
    /\ ~quit
    /\ cmds[c].kind = "processFiles"
    /\ cmds[c].pc = "start"
    /\ \E ok \in BOOLEAN :
         /\ cmds' = [cmds EXCEPT ![c].pc = "done",
                                 ![c].msg = filesLoadedMsg(TraverseDirectory(tree))]
         /\ errors' = IF ok THEN errors
                      ELSE Append(errors, ErrorEntry("traverse", <<>>, "traverse"))
    /\ UNCHANGED <<walk, config, menu, envelopes, other, MaxRetries, apiKey, tree, fs, dirs, state, files,
                   processedFiles, client, quit, run, prev, events, reqs, finalized>>

\* the processFiles command: the walk succeeds or fails
processFiles(c) ==
    /\ ~quit
    /\ cmds[c].kind = "processFiles"
    /\ cmds[c].pc = "start"
    /\ \E ok \in BOOLEAN :
         cmds' = [cmds EXCEPT ![c].pc = "done",
                              ![c].msg = IF ok
                                         THEN filesLoadedMsg(TraverseDirectory(tree))
                                         ELSE fileErrorMsg(<<>>, ErrorEntry("traverse", <<>>, "traverse"))]
    /\ UNCHANGED <<walk, config, menu, envelopes, other, MaxRetries, apiKey, tree, fs, dirs, state, files, processedFiles,
                   errors, client, quit, run, prev, events, reqs, finalized>>

\* a file list with directory markers, as a file source that reports
\* directories would supply it: the entries at the positions ds are markers
MarkedFiles(n, ds) == [i \in 1..n |-> [FileInfo(i) EXCEPT !.IsDir = i \in ds]]

\* processFiles over such a file source
LoadMarkedFiles(c) ==
    /\ ~quit
    /\ cmds[c].kind = "processFiles"
    /\ cmds[c].pc = "start"
    /\ \E ds \in SUBSET (1..tree) :
         /\ ds # {}
         /\ cmds' = [cmds EXCEPT ![c].pc = "done",
                                 ![c].msg = filesLoadedMsg(MarkedFiles(tree, ds))]
    /\ UNCHANGED <<walk, config, menu, envelopes, other, MaxRetries, apiKey, tree, fs, dirs, state, files, processedFiles,
                   errors, client, quit, run, prev, events, reqs, finalized>>

KeyNotSetNever(key) == FALSE

\* GenerateDocumentation: the check of the provider's API key
KeyNotSet(key) == key = ""

\* the continueProcessing closure up to its first Post: find the next
\* file, create the output directory, check for the artifact, enter
\* GenerateDocumentation and makeAPIRequest
StartStep(c) ==
    /\ ~quit
    /\ cmds[c].kind = "continueProcessing"
    /\ cmds[c].pc = "start"
    /\ LET cmd == cmds[c]
           i == NextFile(cmd.files, 1, cmd.snap)
       IN IF i = 0
          THEN cmds' = Remove(cmds, c) /\ dirs' = dirs
          ELSE \E mkdirOk \in BOOLEAN :
               LET path == cmd.files[i].Path
                   ends(m, r) == [cmd EXCEPT !.pc = "done", !.idx = i, !.msg = m, !.ret = r]
               IN \* MkdirAll of a directory that exists returns nil
                  /\ OutputPath(path) \in dirs => mkdirOk
                  /\ dirs' = IF mkdirOk THEN MkdirAll(dirs, OutputPath(path)) ELSE dirs
                  /\ cmds' = [cmds EXCEPT ![c] =
                    IF ~mkdirOk
                    THEN ends(fileErrorMsg(path, ErrorEntry("mkdir", OutputPath(path), "mkdir")), cmd.ret)
                    ELSE IF AlreadyDocumented(fs, OutputFile(path))
                    THEN ends(fileProcessedMsg(path, "skipped"), cmd.ret)
                    ELSE IF KeyNotSet(apiKey)
                    THEN ends(GenerateFailed(path, "key not set"), cmd.ret)
                    ELSE IF ~LoopCondition(0, MaxRetries)
                    THEN ends(GenerateFailed(path, FriendlyError(AfterLoop(NilError))),
                              Returned(FALSE, AfterLoop(NilError)))
                    ELSE [cmd EXCEPT !.pc = "attempt", !.idx = i, !.attempt = 0]]
    /\ UNCHANGED <<walk, config, menu, envelopes, other, MaxRetries, apiKey, tree, fs, state, files, processedFiles,
                   errors, client, quit, run, prev, events, reqs, finalized>>

\* GenerateDocumentation: the Model field of the request
\* (DeepseekRequest{Model: dc.Config.APIModel},
\* ChatGPTRequest{Model: cc.Config.OpenAIModel})
RequestModel(cfg) ==
    IF cfg.APIType = APITypeChatGPT THEN cfg.OpenAIModel ELSE cfg.APIModel

\* makeAPIRequest: enforceRateLimit and the Post of one attempt
Dispatch(c) ==
    /\ ~quit
    /\ cmds[c].pc = "attempt"
    /\ client' = [elapsed |-> 0,
                  gap |-> Saturate(enforceRateLimit(client.elapsed)),
                  sent |-> Min(client.sent + 1, 2)]
    /\ cmds' = [cmds EXCEPT ![c].pc = "awaiting",
                            ![c].log = Append(@, Event("dispatch", cmds[c].attempt, 0))]
    /\ reqs' = reqs + 1
    /\ envelopes' = envelopes \cup {RequestModel(config)}
    /\ UNCHANGED <<walk, config, menu, other, MaxRetries, apiKey, tree, fs, dirs, state, files, processedFiles,
                   errors, quit, run, prev, events, finalized>>

\* how long a Post can take to come back
Latencies == 0..APIRateLimit

\* the Post comes back after some latency: the rest of the loop body, and
\* then either the next iteration or the return of makeAPIRequest, the rest
\* of GenerateDocumentation and the rest of the continueProcessing closure
Respond(c) ==
    /\ ~quit
    /\ cmds[c].pc = "awaiting"
    /\ \E o \in Outcomes, w \in WriteOutcomes, lat \in Latencies :
         LET cmd == cmds[c]
             k == cmd.attempt
             b == LoopBody(o, k, MaxRetries)
             path == cmd.files[cmd.idx].Path
             dst == OutputFile(path)
             log1 == Append(cmd.log, Event("resp", k, o.status))
             log2 == IF b.sleep > 0 THEN Append(log1, Event(b.why, k, b.sleep)) ELSE log1
             last == IF b.next = "continue" THEN SetLastErr(cmd.lastErr, b.err)
                     ELSE cmd.lastErr
             ends(m, r) == [cmd EXCEPT !.pc = "done", !.msg = m, !.ret = r,
                                       !.log = log2, !.lastErr = last]
             parsed == ParseResponse(o.body)
         IN IF b.next = "continue"
            THEN /\ client' = [client EXCEPT !.elapsed = Saturate(@ + lat + b.sleep)]
                 /\ cmds' = [cmds EXCEPT ![c] =
                       IF LoopCondition(k + 1, MaxRetries)
                       THEN [cmd EXCEPT !.pc = "attempt", !.attempt = k + 1,
                                        !.lastErr = last, !.log = log2]
                       ELSE ends(GenerateFailed(path, FriendlyError(AfterLoop(last))),
                                 Returned(FALSE, AfterLoop(last)))]
                 /\ fs' = fs
            ELSE IF ~b.err.isNil
            THEN /\ cmds' = [cmds EXCEPT ![c] =
                       ends(GenerateFailed(path, FriendlyError(b.err)), Returned(FALSE, b.err))]
                 /\ client' = [client EXCEPT !.elapsed = Saturate(@ + lat)]
                 /\ fs' = fs
            ELSE IF ~parsed.ok
            THEN /\ cmds' = [cmds EXCEPT ![c] =
                       ends(GenerateFailed(path, parsed.cause),
                            ReturnedBody(o.body))]
                 /\ client' = [client EXCEPT !.elapsed = Saturate(@ + lat)]
                 /\ fs' = fs
            ELSE /\ cmds' = [cmds EXCEPT ![c] =
                       ends(IF w = "ok"
                            THEN fileProcessedMsg(path, "completed")
                            ELSE fileErrorMsg(path, ErrorEntry("write", dst, "write")),
                            ReturnedBody(o.body))]
                 /\ fs' = IF w = "ok" THEN WriteFile(fs, dst, Content(parsed.text, path, run))
                          ELSE IF w = "partial" THEN WriteFile(fs, dst, Content("partial", path, run))
                          ELSE fs
                 /\ client' = [client EXCEPT !.elapsed = Saturate(@ + lat)]
    /\ UNCHANGED <<walk, config, menu, envelopes, other, MaxRetries, apiKey, tree, dirs, state, files, processedFiles,
                   errors, quit, run, prev, events, reqs, finalized>>


OnFileProcessedTwice(n) == n + 2

\* Update, case fileProcessedMsg: m.processedFiles++
OnFileProcessed(n) == n + 1

OnFileErrorStuck(n) == n

\* Update, case fileErrorMsg: m.processedFiles++
OnFileError(n) == n + 1

IsLastFileEarly(n, total) == n >= total - 1

\* Update, cases fileProcessedMsg and fileErrorMsg: the end of the run
IsLastFile(n, total) == n >= total

\* an outcome message as Update saw it
Outcome(msg) == [path |-> msg.path, kind |-> msg.kind, op |-> msg.entry.op]

\* Update, cases fileProcessedMsg and fileErrorMsg after the count was
\* advanced to n: finish the run or hand out the next step
Continue(c, n) ==
    /\ processedFiles' = n
    /\ events' = Append(events, Outcome(cmds[c].msg))
    /\ IF IsLastFile(n, Len(files))
       THEN /\ fs' = generateStructureDocumentation(fs, run)
            /\ finalized' = finalized + 1
            /\ state' = StateDone
            /\ cmds' = Remove(cmds, c)
       ELSE /\ cmds' = Append(Remove(cmds, c), continueProcessing(files, n))
            /\ UNCHANGED <<fs, finalized, state>>

\* Update, case filesLoadedMsg
UpdateFilesLoaded(c) ==
    /\ ~quit
    /\ cmds[c].pc = "done"
    /\ cmds[c].msg.type = "filesLoaded"
    /\ files' = cmds[c].msg.files
    /\ cmds' = Append(Remove(cmds, c), continueProcessing(cmds[c].msg.files, processedFiles))
    /\ UNCHANGED <<walk, config, menu, envelopes, other, MaxRetries, apiKey, tree, fs, dirs, state, processedFiles, errors,
                   client, quit, run, prev, events, reqs, finalized>>

\* Update, case fileProcessedMsg
UpdateFileProcessed(c) ==
    /\ ~quit
    /\ cmds[c].pc = "done"
    /\ cmds[c].msg.type = "fileProcessed"
    /\ Continue(c, OnFileProcessed(processedFiles))
    /\ UNCHANGED <<walk, config, menu, envelopes, other, MaxRetries, apiKey, tree, dirs, files, errors, client, quit, run,
                   prev, reqs>>

\* Update, case fileErrorMsg
UpdateFileError(c) ==
    /\ ~quit
    /\ cmds[c].pc = "done"
    /\ cmds[c].msg.type = "fileError"
    /\ errors' = Append(errors, cmds[c].msg.entry)
    /\ Continue(c, OnFileError(processedFiles))
    /\ UNCHANGED <<walk, config, menu, envelopes, other, MaxRetries, apiKey, tree, dirs, files, client, quit, run, prev, reqs>>

OtherMsgStartsStep ==
    /\ ~quit
    /\ state = StateProcessing
    /\ files # <<>>
    /\ cmds' = Append(cmds, continueProcessing(files, processedFiles))
    /\ UNCHANGED <<walk, config, menu, envelopes, other, MaxRetries, apiKey, tree, fs, dirs, state, files, processedFiles,
                   errors, client, quit, run, prev, events, reqs, finalized>>

\* Update, every other message (a key other than q and ctrl+c while
\* processing or done, tea.WindowSizeMsg, spinner.TickMsg, progressMsg):
\* nothing of the pipeline changes and no step command is returned
OtherMsg ==
    /\ ~quit
    /\ state \in {StateProcessing, StateDone}
    /\ UNCHANGED vars

\* the process exits: its commands are gone with it and only the output
\* root, left as f, stays
Exit(f) ==
    /\ quit' = TRUE
    /\ prev' = [valid |-> TRUE, done |-> state = StateDone,
                walked |-> \A j \in DOMAIN errors : errors[j].op # "traverse",
                clean |-> errors = <<>>,
                remoteClean |-> \A j \in DOMAIN errors : ~RemoteFailure(errors[j]),
                fs |-> f]
    /\ fs' = f
    /\ state' = StateEnterOutputDir
    /\ files' = <<>>
    /\ processedFiles' = 0
    /\ errors' = <<>>
    /\ client' = NewClient
    /\ cmds' = <<>>
    /\ events' = <<>>
    /\ reqs' = 0
    /\ finalized' = 0
    /\ envelopes' = {}
    /\ UNCHANGED <<walk, config, menu, other, MaxRetries, apiKey, tree, dirs, run>>

\* Update, tea.KeyMsg "q" or "ctrl+c": tea.Quit
Quit ==
    /\ ~quit
    /\ Exit(fs)

\* tea.Quit while the command's os.WriteFile is under way (the answer was a
\* 200 with a usable body): the artifact was created or truncated and holds
\* a part of the text
QuitDuringWrite ==
    /\ ~quit
    /\ \E c \in DOMAIN cmds :
         /\ cmds[c].pc = "awaiting"
         /\ LET path == cmds[c].files[cmds[c].idx].Path
            IN Exit(WriteFile(fs, OutputFile(path), Content("partial", path, run)))

\* the program is run again over the same roots with the same
\* configuration (two sessions are modelled)
Restart ==
    /\ quit
    /\ run = 1
    /\ quit' = FALSE
    /\ run' = run + 1
    /\ UNCHANGED <<walk, config, menu, envelopes, other, MaxRetries, apiKey, tree, fs, dirs, state, files, processedFiles,
                   errors, client, cmds, prev, events, reqs, finalized>>

\* ----------------------------------- a second process over the same roots
\* the source file the second process is at
OtherPath == SourcePath(other.idx)

\* continueProcessing in the second process: os.MkdirAll and os.Stat
OtherStat ==
    /\ other.pc = "stat"
    /\ other.idx <= tree
    /\ state # StateEnterOutputDir
    /\ dirs' = MkdirAll(dirs, OutputPath(OtherPath))
    /\ other' = IF AlreadyDocumented(fs, OutputFile(OtherPath))
                THEN [idx |-> other.idx + 1, pc |-> "stat"]
                ELSE [other EXCEPT !.pc = "request"]
    /\ UNCHANGED <<walk, config, menu, envelopes, MaxRetries, apiKey, tree, fs, state, files, processedFiles, errors,
                   client, cmds, quit, run, prev, events, reqs, finalized>>

\* continueProcessing in the second process: GenerateDocumentation returns
OtherGenerate ==
    /\ other.pc = "request"
    /\ \E ok \in BOOLEAN :
         other' = IF ok THEN [other EXCEPT !.pc = "write"]
                  ELSE [idx |-> other.idx + 1, pc |-> "stat"]
    /\ UNCHANGED <<walk, config, menu, envelopes, MaxRetries, apiKey, tree, fs, dirs, state, files, processedFiles,
                   errors, client, cmds, quit, run, prev, events, reqs, finalized>>

\* os.WriteFile in the second process, first half: the destination is
\* opened with O_CREATE|O_TRUNC
OtherOpen ==
    /\ other.pc = "write"
    /\ fs' = WriteFile(fs, OutputFile(OtherPath), Content("truncated", OtherPath, 0))
    /\ other' = [other EXCEPT !.pc = "open"]
    /\ UNCHANGED <<walk, config, menu, envelopes, MaxRetries, apiKey, tree, dirs, state, files, processedFiles,
                   errors, client, cmds, quit, run, prev, events, reqs, finalized>>

\* os.WriteFile in the second process, second half: its text is written
\* from offset 0.  Over a file that still is as it was truncated this
\* leaves the text; over a text the first process wrote in between it
\* leaves the text when that is at least as long as the other, and
\* otherwise the text followed by the tail of the other
OtherWrite ==
    /\ other.pc = "open"
    /\ \E shorter \in BOOLEAN :
         LET dst == OutputFile(OtherPath)
             text == IF fs[dst].text # "truncated" /\ shorter THEN "mixed" ELSE "doc"
         IN fs' = WriteFile(fs, dst, Content(text, OtherPath, 0))
    /\ other' = [idx |-> other.idx + 1, pc |-> "stat"]
    /\ UNCHANGED <<walk, config, menu, envelopes, MaxRetries, apiKey, tree, dirs, state, files, processedFiles,
                   errors, client, cmds, quit, run, prev, events, reqs, finalized>>

\* the event loop and the commands of one session
\* ------------------------------------------- the screens before processing
CreateDocumentationClientWithGemini(apiType) ==
    IF apiType \in {APITypeDeepseek, APITypeChatGPT, APITypeGemini}
    THEN [client |-> TRUE, err |-> "none"]
    ELSE [client |-> FALSE, err |-> "unsupported API type"]

\* api.CreateDocumentationClient: whether it returns a client, and its error
CreateDocumentationClient(apiType) ==
    IF apiType = APITypeDeepseek THEN [client |-> TRUE, err |-> "none"]
    ELSE IF apiType = APITypeChatGPT THEN [client |-> TRUE, err |-> "none"]
    ELSE IF apiType = APITypeGemini THEN [client |-> FALSE, err |-> "coming soon"]
    ELSE [client |-> FALSE, err |-> "unsupported API type"]

\* the keys the selection screens react to
MenuKeys == {"up", "down", "enter"}

\* Update, tea.KeyMsg in StateInit: any key but the quit keys
PressAnyKey ==
    /\ ~quit
    /\ state = StateInit
    /\ state' = StateSelectAPIType
    /\ UNCHANGED <<walk, config, menu, envelopes, other, MaxRetries, apiKey, tree, fs, dirs, files,
                   processedFiles, errors, client, cmds, quit, run, prev, events, reqs,
                   finalized>>

\* Update, tea.KeyMsg in StateSelectAPIType
SelectAPIType ==
    /\ ~quit
    /\ state = StateSelectAPIType
    /\ \E key \in MenuKeys :
         IF key = "up"
         THEN /\ menu' = IF menu.selectedAPIType > 0
                         THEN [menu EXCEPT !.selectedAPIType = @ - 1,
                                           !.apiModels = ModelsOf(APITypes, menu.selectedAPIType - 1),
                                           !.selectedModel = 0]
                         ELSE menu
              /\ UNCHANGED <<config, state>>
         ELSE IF key = "down"
         THEN /\ menu' = IF menu.selectedAPIType < Len(APITypes) - 1
                         THEN [menu EXCEPT !.selectedAPIType = @ + 1,
                                           !.apiModels = ModelsOf(APITypes, menu.selectedAPIType + 1),
                                           !.selectedModel = 0]
                         ELSE menu
              /\ UNCHANGED <<config, state>>
         ELSE /\ config' = [config EXCEPT !.APIType = APITypes[menu.selectedAPIType + 1]]
              /\ state' = StateSelectAPIModel
              /\ menu' = menu
    /\ UNCHANGED <<walk, envelopes, other, MaxRetries, apiKey, tree, fs, dirs, files,
                   processedFiles, errors, client, cmds, quit, run, prev, events, reqs,
                   finalized>>

\* Model.apiModels, the list the model screen offers
apiModels == menu.apiModels

\* Update, tea.KeyMsg in StateSelectAPIModel
SelectAPIModel ==
    /\ ~quit
    /\ state = StateSelectAPIModel
    /\ \E key \in MenuKeys :
         IF key = "up"
         THEN /\ menu' = IF menu.selectedModel > 0
                         THEN [menu EXCEPT !.selectedModel = @ - 1]
                         ELSE menu
              /\ UNCHANGED <<config, state>>
         ELSE IF key = "down"
         THEN /\ menu' = IF menu.selectedModel < Len(apiModels) - 1
                         THEN [menu EXCEPT !.selectedModel = @ + 1]
                         ELSE menu
              /\ UNCHANGED <<config, state>>
         ELSE /\ config' = [config EXCEPT !.APIModel = apiModels[menu.selectedModel + 1]]
              /\ state' = StateEnterAPIKey
              /\ menu' = menu
    /\ UNCHANGED <<walk, envelopes, other, MaxRetries, apiKey, tree, fs, dirs, files,
                   processedFiles, errors, client, cmds, quit, run, prev, events, reqs,
                   finalized>>

\* Update, tea.KeyMsg Enter in StateEnterAPIKey, the key typed being apiKey
EnterAPIKey ==
    /\ ~quit
    /\ state = StateEnterAPIKey
    /\ LET made == CreateDocumentationClient(config.APIType)
       IN IF made.err # "none"
          THEN /\ Len(errors) < MaxKeyErrors
               /\ errors' = Append(errors, ErrorEntry("client", <<>>, made.err))
               /\ menu' = [menu EXCEPT !.apiClient = made.client]
               /\ UNCHANGED <<state, client>>
          ELSE /\ menu' = [menu EXCEPT !.apiClient = made.client]
               /\ client' = NewClient
               /\ state' = StateSelectProjectType
               /\ errors' = errors
    /\ UNCHANGED <<walk, config, envelopes, other, MaxRetries, apiKey, tree, fs, dirs, files,
                   processedFiles, cmds, quit, run, prev, events, reqs, finalized>>

\* Update, tea.KeyMsg Enter in StateSelectProjectType: loadDirectoryEntries
\* of the input directory succeeds or fails
SelectProjectType ==
    /\ ~quit
    /\ state = StateSelectProjectType
    /\ \E loaded \in BOOLEAN :
         IF loaded
         THEN /\ state' = StateSelectInputDir
              /\ errors' = errors
         ELSE /\ state' = StateEnterInputDir
              /\ errors' = Append(errors, ErrorEntry("loaddir", inputDir, "loaddir"))
    /\ UNCHANGED <<walk, config, menu, envelopes, other, MaxRetries, apiKey, tree, fs, dirs, files,
                   processedFiles, client, cmds, quit, run, prev, events, reqs, finalized>>

\* Update, tea.KeyMsg in StateSelectInputDir: Enter on an entry that is not
\* a directory confirms the input directory, Escape switches to typing it
SelectInputDir ==
    /\ ~quit
    /\ state = StateSelectInputDir
    /\ \E key \in {"enter", "escape"} :
         state' = IF key = "enter" THEN StateEnterOutputDir ELSE StateEnterInputDir
    /\ UNCHANGED <<walk, config, menu, envelopes, other, MaxRetries, apiKey, tree, fs, dirs, files,
                   processedFiles, errors, client, cmds, quit, run, prev, events, reqs,
                   finalized>>

\* Update, tea.KeyMsg Enter in StateEnterInputDir: os.Stat of the typed path
EnterInputDir ==
    /\ ~quit
    /\ state = StateEnterInputDir
    /\ \E stat \in {"dir", "missing", "file"} :
         IF stat = "dir"
         THEN /\ state' = StateEnterOutputDir
              /\ errors' = errors
         ELSE /\ Len(errors) < MaxKeyErrors
              /\ errors' = Append(errors, ErrorEntry("stat", inputDir, stat))
              /\ state' = state
    /\ UNCHANGED <<walk, config, menu, envelopes, other, MaxRetries, apiKey, tree, fs, dirs, files,
                   processedFiles, client, cmds, quit, run, prev, events, reqs, finalized>>

Run ==
    \/ EnterOutputDir
    \/ \E c \in DOMAIN cmds : processFiles(c)
    \/ \E c \in DOMAIN cmds : StartStep(c)
    \/ \E c \in DOMAIN cmds : Dispatch(c)
    \/ \E c \in DOMAIN cmds : Respond(c)
    \/ \E c \in DOMAIN cmds : UpdateFilesLoaded(c)
    \/ \E c \in DOMAIN cmds : UpdateFileProcessed(c)
    \/ \E c \in DOMAIN cmds : UpdateFileError(c)
    \/ OtherMsg

\* one session, which the user may leave at any time
Next ==
    \/ Run
    \/ Quit
    \/ QuitDuringWrite

Spec == Init /\ [][Next]_vars

\* one session that the user does not leave: the event loop keeps
\* delivering messages, commands run to their end and every Post comes back
LiveSpec == Init /\ [][Run]_vars /\ WF_vars(Run)

\* one session over a single file with a key, for longer retry loops
InitCall == Start(1..MaxAttempts) /\ tree = 1 /\ apiKey = "key"

CallSpec == InitCall /\ [][Next]_vars

\* one session over a tree of one file whose configuration may hold a
\* MaxRetries of zero or below
InitRetries == Start((0 - MaxNegative)..MaxRetriesBound) /\ tree = 1 /\ apiKey = "key"

RetriesSpec == InitRetries /\ [][Next]_vars

\* one session from the first screen on, over a tree of one file
NextSelect ==
    \/ Next
    \/ PressAnyKey
    \/ SelectAPIType
    \/ SelectAPIModel
    \/ EnterAPIKey
    \/ SelectProjectType
    \/ SelectInputDir
    \/ EnterInputDir

\* NewModel: the first screen, nothing selected, no client
InitSelect ==
    /\ MaxRetries = 1
    /\ apiKey = "key"
    /\ tree = 1
    /\ fs = EmptyFS
    /\ dirs = {}
    /\ state = StateInit
    /\ files = <<>>
    /\ processedFiles = 0
    /\ errors = <<>>
    /\ client = NewClient
    /\ cmds = <<>>
    /\ quit = FALSE
    /\ run = 1
    /\ prev = NoPrev
    /\ events = <<>>
    /\ reqs = 0
    /\ finalized = 0
    /\ other = OtherStart
    /\ \E d \in DefaultOpenAIModels :
         config = [APIType |-> "", APIModel |-> "", OpenAIModel |-> d]
    /\ menu = [selectedAPIType |-> 0, selectedModel |-> 0, apiClient |-> FALSE,
               apiModels |-> ModelsOf(APITypes, 0)]
    /\ envelopes = {}
    /\ walk = NoWalk

SelectSpec == InitSelect /\ [][NextSelect]_vars

\* TraverseDirectory applied to a tree
Traverse ==
    /\ ~walk.done
    /\ LET r == Walk(walk.entries, 1, <<>>)
       IN walk' = [walk EXCEPT !.done = TRUE, !.files = r.files, !.err = r.err]
    /\ UNCHANGED <<MaxRetries, apiKey, tree, fs, dirs, state, files, processedFiles, errors,
                   client, cmds, quit, run, prev, events, reqs, finalized, other,
                   config, menu, envelopes>>

\* the trees of up to MaxEntries entries
InitWalk ==
    /\ MaxRetries = 1
    /\ apiKey = "key"
    /\ tree = 0
    /\ fs = EmptyFS
    /\ dirs = {}
    /\ state = StateEnterOutputDir
    /\ files = <<>>
    /\ processedFiles = 0
    /\ errors = <<>>
    /\ client = NewClient
    /\ cmds = <<>>
    /\ quit = FALSE
    /\ run = 1
    /\ prev = NoPrev
    /\ events = <<>>
    /\ reqs = 0
    /\ finalized = 0
    /\ other = OtherStart
    /\ config = [APIType |-> APITypeDeepseek, APIModel |-> APIModelMap(APITypeDeepseek)[1],
                 OpenAIModel |-> ""]
    /\ menu = [selectedAPIType |-> 0, selectedModel |-> 0, apiClient |-> TRUE,
               apiModels |-> ModelsOf(APITypes, 0)]
    /\ envelopes = {}
    /\ \E n \in 0..MaxEntries :
         \E es \in [1..n -> WalkEntries] :
           walk = [NoWalk EXCEPT !.entries = es]

WalkSpec == InitWalk /\ [][Traverse]_vars

\* one session whose file list may hold directory markers
NextMarker ==
    \/ Next
    \/ \E c \in DOMAIN cmds : LoadMarkedFiles(c)

MarkerSpec == Init /\ [][NextMarker]_vars

\* one session and a second process over the same roots, interleaved
NextOverlap ==
    \/ Next
    \/ OtherStat
    \/ OtherGenerate
    \/ OtherOpen
    \/ OtherWrite

InitOverlap == Init /\ MaxRetries = 1 /\ apiKey = "key"

OverlapSpec == InitOverlap /\ [][NextOverlap]_vars

\* two sessions, one after the other, over the same roots
NextResume ==
    \/ Next
    \/ Restart

\* the sessions of ResumeSpec make one attempt per call: what a session
\* leaves behind depends on how each call ends, not on its retries
InitResume == Init /\ MaxRetries = 1

ResumeSpec == InitResume /\ [][NextResume]_vars


\* -------------------------------------------------------------- properties
\* the requests a call has dispatched
Dispatches(log) == Cardinality({j \in DOMAIN log : log[j].ev = "dispatch"})

\* an answer that is a network failure (logged with status 0) or a 429
Transient(e) == e.ev = "resp" /\ e.val \in {0, 429}

\* the taxonomy class of an APIError, from its flags
Classification(err) ==
    IF err.IsInvalidKey THEN "InvalidCredential"
    ELSE IF err.IsRateLimit THEN "RateLimited"
    ELSE IF err.IsNetworkError THEN "NetworkFailure"
    ELSE "ProtocolFailure"

\* the destination of the i-th file of the input tree
Artifact(i) == OutputFile(SourcePath(i))

\* C1: within a session processedFiles never decreases; it grows by exactly
\* one with every outcome message Update handles (completed, skipped or
\* failed) and not otherwise; with a loaded file list it never exceeds the
\* length of the list and equals it exactly when the session is done, that
\* is after as many outcome messages as there are files.
C1_Monotonic ==
    [][~quit' =>
         /\ processedFiles' \in {processedFiles, processedFiles + 1}
         /\ processedFiles' - processedFiles = Len(events') - Len(events)
         /\ files' # <<>> =>
              /\ processedFiles' <= Len(files')
              /\ (processedFiles' = Len(files')) <=> (state' = StateDone)]_vars

C1_Witness ==
    /\ state = StateDone
    /\ Len(files) >= 2
    /\ processedFiles = Len(files)
    /\ \E j, k \in DOMAIN events :
         events[j].kind = "failed" /\ events[k].kind = "completed"

\* C2: every session that is processing a file list the walk supplied
\* eventually is done with processedFiles equal to the length of the list.
C2_Terminates ==
    [](   (/\ state = StateProcessing
           /\ \E c \in DOMAIN cmds : cmds[c].kind = "continueProcessing")
       => <>(state = StateDone /\ processedFiles = Len(files)))

\* C3: every dispatch of the client but its first comes at least
\* APIRateLimit after the dispatch before it, within a call and across the
\* files of a session.
C3_RateLimit == client.sent >= 2 => client.gap >= APIRateLimit

C3_Witness ==
    /\ client.sent >= 2
    /\ processedFiles >= 1
    /\ \E c \in DOMAIN cmds : cmds[c].pc = "awaiting" /\ cmds[c].attempt >= 1

\* C4: an answer 401 or 403 ends the call at once with an invalid-key
\* error: nothing follows it in the call's log (no dispatch, no sleep), so
\* an answer 401 to the first attempt makes a call of exactly one dispatch.
C4_AuthNotRetried ==
    \A c \in DOMAIN cmds :
      LET L == cmds[c].log
      IN \A j \in DOMAIN L :
           (L[j].ev = "resp" /\ L[j].val \in {401, 403}) =>
              /\ j = Len(L)
              /\ Dispatches(L) = L[j].attempt + 1
              /\ cmds[c].pc = "done"
              /\ cmds[c].ret = Returned(FALSE, APIError(L[j].val, FALSE, TRUE, FALSE))
              /\ cmds[c].msg.entry.cause = "invalid key"

C4_Witness ==
    \E c \in DOMAIN cmds :
      \E j \in DOMAIN cmds[c].log :
        /\ cmds[c].log[j].ev = "resp"
        /\ cmds[c].log[j].val = 401
        /\ cmds[c].log[j].attempt >= 1

\* C5: within a call every dispatch after the first follows an attempt that
\* ended in a network failure or a 429; any answer other than 200, 401, 403
\* and 429 ends the call after that attempt with an error that carries no
\* retryable flag (a ProtocolFailure).
C5_OnlyTransientRetried ==
    \A c \in DOMAIN cmds :
      LET L == cmds[c].log
      IN /\ \A j \in DOMAIN L :
              (L[j].ev = "dispatch" /\ L[j].attempt > 0) =>
                 \E i \in 1..(j - 1) :
                    Transient(L[i]) /\ L[i].attempt = L[j].attempt - 1
         /\ \A j \in DOMAIN L :
              (L[j].ev = "resp" /\ L[j].val \notin {0, 200, 401, 403, 429}) =>
                 /\ j = Len(L)
                 /\ cmds[c].pc = "done"
                 /\ cmds[c].ret = Returned(FALSE, APIError(L[j].val, FALSE, FALSE, FALSE))
                 /\ Classification(cmds[c].ret.err) = "ProtocolFailure"

C5_Witness ==
    \E c \in DOMAIN cmds :
      /\ cmds[c].pc = "done"
      /\ cmds[c].attempt >= 1
      /\ cmds[c].log[Len(cmds[c].log)].val = 302

ExhaustedCall(c) ==
    /\ cmds[c].ret.done
    /\ Dispatches(cmds[c].log) = MaxRetries
    /\ \A j \in DOMAIN cmds[c].log :
         cmds[c].log[j].ev = "resp" => Transient(cmds[c].log[j])

SecondRunSkipsAll ==
    /\ reqs = 0
    /\ \A j \in DOMAIN events :
         events[j].op # "traverse" => events[j].kind = "skipped"
    /\ (state = StateDone /\ files # <<>>) =>
         /\ Len(events) = tree
         /\ \A i \in 1..tree : events[i].path = SourcePath(i)
    /\ \A i \in 1..tree :
         /\ Exists(fs, Artifact(i)) <=> Exists(prev.fs, Artifact(i))
         /\ Exists(fs, Artifact(i)) => fs[Artifact(i)] = prev.fs[Artifact(i)]

C9_SkipExisting ==
    [][\A c \in DOMAIN cmds :
         /\ (/\ cmds[c].kind = "continueProcessing"
             /\ cmds[c].pc = "start"
             /\ c \in DOMAIN cmds'
             /\ cmds'[c].pc # "start"
             /\ Exists(fs, OutputFile(cmds'[c].files[cmds'[c].idx].Path))) =>
               /\ cmds'[c].pc = "done"
               /\ cmds'[c].msg =
                    fileProcessedMsg(cmds'[c].files[cmds'[c].idx].Path, "skipped")
               /\ cmds'[c].log = <<>>
               /\ reqs' = reqs
               /\ client' = client
               /\ fs' = fs
               /\ errors' = errors
               /\ processedFiles' = processedFiles
         /\ (/\ cmds[c].pc = "done"
             /\ cmds[c].msg.kind = "skipped"
             /\ Len(events') = Len(events) + 1) =>
               /\ events'[Len(events')].kind = "skipped"
               /\ events'[Len(events')].path = cmds[c].msg.path
               /\ processedFiles' = processedFiles + 1
               /\ errors' = errors
               /\ reqs' = reqs
               /\ fs'[OutputFile(cmds[c].msg.path)] = fs[OutputFile(cmds[c].msg.path)]]_vars

C9_Witness ==
    /\ run = 2
    /\ apiKey = "key"
    /\ Len(events) = 2
    /\ events[1].kind = "failed"
    /\ events[2].kind = "skipped"
    /\ Len(errors) = 1
    /\ reqs = 1

\* C10: with a loaded file list the j-th outcome message Update handles is
\* about the j-th file of the list, whatever the outcomes before it were;
\* there are never more outcomes than files; while files remain the step of
\* the next file is under way; a finished pass has one outcome per file.
C10_FullPass ==
    files # <<>> =>
      /\ Len(events) <= Len(files)
      /\ \A j \in DOMAIN events :
           /\ events[j].path = files[j].Path
           /\ events[j].kind \in {"completed", "skipped", "failed"}
      /\ state = StateDone <=> Len(events) = Len(files)
      /\ Len(events) < Len(files) =>
           \E c \in DOMAIN cmds :
             /\ cmds[c].kind = "continueProcessing"
             /\ cmds[c].snap = Len(events)
             /\ cmds[c].pc # "start" => cmds[c].idx = Len(events) + 1

C10_Witness ==
    /\ state = StateDone
    /\ Len(files) = 2
    /\ Len(events) = 2
    /\ events[1].kind = "failed"
    /\ events[2].kind = "completed"

\* C11: once Model.errors holds the invalid-key failure of a file, no
\* command of the session dispatches a request for a later file.
C11_StopsAfterInvalidKey ==
    (\E j \in DOMAIN errors : errors[j].cause = "invalid key") =>
       \A c \in DOMAIN cmds : Dispatches(cmds[c].log) = 0

\* C12: a session never has more than one command outstanding, hence at
\* most one request awaiting its answer and at most one outcome message
\* waiting for Update; before processing and after the pass is finished
\* there is none.  Messages other than those of the commands return no
\* step command.
C12_SingleStep ==
    /\ Len(cmds) <= 1
    /\ Cardinality({c \in DOMAIN cmds : cmds[c].pc = "awaiting"}) <= 1
    /\ Cardinality({c \in DOMAIN cmds : cmds[c].pc = "done"}) <= 1
    /\ state \in {StateEnterOutputDir, StateDone} => cmds = <<>>

C12_Witness ==
    /\ state = StateProcessing
    /\ processedFiles >= 1
    /\ Len(cmds) = 1
    /\ cmds[1].pc = "awaiting"
    /\ cmds[1].attempt >= 1

\* the files of the list that are not directory markers
PlainFiles == {i \in DOMAIN files : ~files[i].IsDir}

C14_Resumable ==
    (run = 2 /\ ~quit /\ ~prev.done) =>
      /\ \A c \in DOMAIN cmds :
           (/\ cmds[c].kind = "continueProcessing"
            /\ cmds[c].idx > 0
            /\ Exists(prev.fs, OutputFile(cmds[c].files[cmds[c].idx].Path))) =>
              Dispatches(cmds[c].log) = 0
      /\ (state = StateDone /\ files # <<>>) =>
           \A i \in 1..tree :
             \/ /\ Exists(fs, Artifact(i))
                /\ fs[Artifact(i)].src = SourcePath(i)
                /\ fs[Artifact(i)].text # "partial"
             \/ \E j \in DOMAIN events :
                  events[j].path = SourcePath(i) /\ events[j].kind = "failed"

\* C15: when the session and a second process over the same roots have both
\* gone through the list and no os.WriteFile failed in the session, every
\* artifact of a file holds one complete answer for that file.
C15_NeverCorrupted ==
    (/\ state = StateDone
     /\ files # <<>>
     /\ other.idx > tree
     /\ \A j \in DOMAIN errors : errors[j].op # "write") =>
       \A i \in 1..tree :
         Exists(fs, Artifact(i)) =>
           /\ fs[Artifact(i)].src = SourcePath(i)
           /\ fs[Artifact(i)].text \in {"doc", "empty"}

\* names of directory entries, among them one that is another with ".md"
\* appended, and the source paths of at most two levels made of them
EntryNames == {<<"f", "1">>, <<"f", "1", ".md">>, <<"pkg">>}
SourcePaths ==
    {inputDir \o <<a>> : a \in EntryNames}
        \cup {inputDir \o <<a, b>> : a, b \in EntryNames}

\* C16: the destination of a source path is the output root followed by the
\* path relative to the input root with ".md" appended to its last
\* component; distinct source paths have distinct destinations; and every
\* artifact the session wrote lies at the destination of its source.
C16_DestinationInjective ==
    /\ \A p \in SourcePaths :
         LET rel == Rel(inputDir, p)
         IN OutputFile(p) =
              outputDir \o [k \in DOMAIN rel |->
                              IF k = Len(rel) THEN rel[k] \o <<".md">> ELSE rel[k]]
    /\ \A p, q \in SourcePaths : OutputFile(p) = OutputFile(q) => p = q
    /\ \A i, k \in 1..MaxFiles : Artifact(i) = Artifact(k) => i = k
    /\ \A dst \in DOMAIN fs :
         fs[dst].src # <<>> => dst = OutputFile(fs[dst].src)

C16_Witness ==
    /\ tree = 2
    /\ Exists(fs, Artifact(1))
    /\ Exists(fs, Artifact(2))
    /\ Artifact(1) # Artifact(2)
    /\ fs[Artifact(1)].src = SourcePath(1)
    /\ fs[Artifact(2)].src = SourcePath(2)
    /\ Len(Artifact(2)) = Len(Artifact(1)) + 1

\* C17: with an empty API key no request is ever dispatched and the client
\* stays as it was constructed (lastAPICall untouched); every step that
\* comes to GenerateDocumentation ends in the key-not-set failure, without
\* entering makeAPIRequest, and no file is completed.
C17_EmptyKey ==
    apiKey = "" =>
      /\ reqs = 0
      /\ client = NewClient
      /\ \A c \in DOMAIN cmds :
           /\ cmds[c].log = <<>>
           /\ ~cmds[c].ret.done
           /\ cmds[c].pc \notin {"attempt", "awaiting"}
           /\ cmds[c].msg.entry.op = "generate" => cmds[c].msg.entry.cause = "key not set"
      /\ \A j \in DOMAIN errors :
           errors[j].op = "generate" => errors[j].cause = "key not set"
      /\ \A j \in DOMAIN events : events[j].kind # "completed"

C17_Witness ==
    /\ apiKey = ""
    /\ state = StateDone
    /\ Len(errors) = 2
    /\ errors[1].cause = "key not set"
    /\ errors[2].cause = "key not set"
    /\ reqs = 0

\* C18: no artifact of a completed step is empty: a step that ended in the
\* completed outcome wrote a text that is not the empty string.
C18_NonEmptyDocumentation ==
    /\ \A c \in DOMAIN cmds :
         (cmds[c].msg.kind = "completed") =>
            fs[OutputFile(cmds[c].msg.path)].text # "empty"
    /\ \A j \in DOMAIN events :
         (events[j].kind = "completed" /\ Exists(fs, OutputFile(events[j].path))) =>
            fs[OutputFile(events[j].path)].text # "empty"

\* C19: when the walk of the input root fails, the failure is the one entry
\* of Model.errors, the file list stays empty, no step command is ever
\* created, no request is dispatched and no artifact of a file is written.
C19_TraverseFailure ==
    /\ \A c \in DOMAIN cmds :
         cmds[c].msg.entry.op = "traverse" =>
            /\ files = <<>>
            /\ reqs = 0
            /\ processedFiles = 0
            /\ Len(cmds) = 1
            /\ \A i \in 1..MaxFiles : ~Exists(fs, Artifact(i))
    /\ (\E j \in DOMAIN errors : errors[j].op = "traverse") =>
         /\ errors = <<ErrorEntry("traverse", <<>>, "traverse")>>
         /\ files = <<>>
         /\ cmds = <<>>
         /\ reqs = 0
         /\ client = NewClient
         /\ \A i \in 1..MaxFiles : ~Exists(fs, Artifact(i))
         /\ \A j \in DOMAIN events : events[j].op = "traverse"

C19_Witness ==
    /\ tree = 2
    /\ apiKey = "key"
    /\ errors = <<ErrorEntry("traverse", <<>>, "traverse")>>
    /\ cmds = <<>>
    /\ ~quit

FailedEvents == SelectSeq(events, LAMBDA e : e.kind = "failed")

\* C21: Model.errors has one entry per failed outcome, in the order of the
\* failures, and none for a completed or skipped outcome; the entry of a
\* failed step names the path of the source file of that step and a cause.
C21_ErrorPerFailure ==
    /\ Len(errors) = Len(FailedEvents)
    /\ \A j \in DOMAIN errors :
         errors[j].op # "traverse" =>
            /\ j <= Len(FailedEvents)
            /\ errors[j].path = FailedEvents[j].path
            /\ errors[j].cause # "none"

\* C22: in a call's log an answer 429 to attempt k that another attempt
\* follows is followed by exactly one sleep, of (k+1) * APIRateLimit and of
\* the rate-limit kind (no backoff sleep), and then by the dispatch of
\* attempt k+1; when that attempt is about to start the rate limit is
\* already met, so enforceRateLimit adds nothing to the wait.
C22_RateLimitWait ==
    \A c \in DOMAIN cmds :
      LET L == cmds[c].log
      IN /\ \A j \in DOMAIN L :
              (/\ L[j].ev = "resp"
               /\ L[j].val = 429
               /\ L[j].attempt + 1 < MaxRetries) =>
                 /\ j + 1 <= Len(L)
                 /\ L[j + 1] = Event("ratelimit", L[j].attempt, (L[j].attempt + 1) * APIRateLimit)
                 /\ j + 2 <= Len(L) => L[j + 2] = Event("dispatch", L[j].attempt + 1, 0)
         /\ (/\ cmds[c].pc = "attempt"
             /\ L # <<>>
             /\ L[Len(L)].ev = "ratelimit") =>
               enforceRateLimit(client.elapsed) = client.elapsed

C22_Witness ==
    \E c \in DOMAIN cmds :
      /\ Len(cmds[c].log) >= 6
      /\ cmds[c].log[5] = Event("resp", 1, 429)
      /\ cmds[c].log[6] = Event("ratelimit", 1, 2 * APIRateLimit)
      /\ cmds[c].pc = "awaiting"
      /\ cmds[c].attempt = 2

\* C23: in a call's log a network failure at attempt k that another attempt
\* follows is followed by exactly one sleep, the backoff of 2^k seconds,
\* and then by the dispatch of attempt k+1, for every k up to
\* MaxRetries-2; the backoff after attempt k+1 is longer than after k.
C23_ExponentialBackoff ==
    \A c \in DOMAIN cmds :
      LET L == cmds[c].log
      IN /\ \A j \in DOMAIN L :
              (/\ L[j].ev = "resp"
               /\ L[j].val = 0
               /\ L[j].attempt <= MaxRetries - 2) =>
                 /\ j + 1 <= Len(L)
                 /\ L[j + 1] = Event("backoff", L[j].attempt, 2 ^ L[j].attempt)
                 /\ j + 2 <= Len(L) => L[j + 2] = Event("dispatch", L[j].attempt + 1, 0)
         /\ \A i, j \in DOMAIN L :
              (/\ L[i].ev = "backoff"
               /\ L[j].ev = "backoff"
               /\ L[i].attempt < L[j].attempt) => L[i].val < L[j].val

C23_Witness ==
    \E c \in DOMAIN cmds :
      /\ Len(cmds[c].log) >= 7
      /\ cmds[c].log[3] = Event("backoff", 0, 1)
      /\ cmds[c].log[6] = Event("backoff", 1, 2)
      /\ cmds[c].log[7] = Event("dispatch", 2, 0)

\* C24: a call that got a 200 answer whose body does not decode or has
\* zero choices ends right there: the 200 answer is the last entry of its
\* log, it made one dispatch per attempt and none after the answer, it
\* reports the file as failed with the decoding cause, and the file's
\* destination does not exist; the error entries of such failures belong
\* to failed outcomes of files without an artifact.
BadBodies == {"malformed", "nochoices"}

C24_ProtocolFailure ==
    /\ \A c \in DOMAIN cmds :
         LET cmd == cmds[c]
             L == cmd.log
         IN (cmd.ret.done /\ cmd.ret.ok /\ cmd.ret.body \in BadBodies) =>
               /\ cmd.pc = "done"
               /\ L[Len(L)] = Event("resp", cmd.attempt, 200)
               /\ Dispatches(L) = cmd.attempt + 1
               /\ cmd.msg.kind = "failed"
               /\ cmd.msg.path = cmd.files[cmd.idx].Path
               /\ cmd.msg.entry.op = "generate"
               /\ cmd.msg.entry.cause =
                     (IF cmd.ret.body = "malformed" THEN "parse" ELSE "no choices")
               /\ ~Exists(fs, OutputFile(cmd.msg.path))
    /\ \A j \in DOMAIN errors :
         errors[j].cause \in {"parse", "no choices"} =>
            /\ j <= Len(FailedEvents)
            /\ FailedEvents[j].path = errors[j].path
            /\ ~Exists(fs, OutputFile(errors[j].path))

C24_Witness ==
    /\ \E j \in DOMAIN errors : errors[j].cause = "no choices"
    /\ \E j \in DOMAIN errors : errors[j].cause = "parse"
    /\ state = "StateDone"

\* C25: in every session left to run, generateStructureDocumentation is
\* called exactly once: never twice, only when every file of the list has
\* had its outcome, and eventually.
C25_FinalizedOnce ==
    /\ [](finalized <= 1)
    /\ [](finalized = 1 =>
            /\ processedFiles >= Len(files)
            /\ \A i \in 1..Len(files) :
                 \E j \in DOMAIN events : events[j].path = files[i].Path)
    /\ <>(finalized = 1)

\* the answers in a call's log, in order
Answers(log) == SelectSeq(log, LAMBDA e : e.ev = "resp")

\* C26: a call that returned success made its attempts 0..j, all but the
\* last answered by retryable outcomes and the last by 200, with exactly
\* j+1 dispatches and the 200 answer as the last entry of its log (no sleep
\* after it); a call whose MaxRetries attempts all had retryable outcomes
\* made exactly MaxRetries dispatches and returned the error of its last
\* attempt.
C26_RetryThenSuccess ==
    \A c \in DOMAIN cmds :
      LET cmd == cmds[c]
          L == cmd.log
          A == Answers(L)
          r == cmd.ret
      IN /\ (r.done /\ r.ok) =>
              /\ L[Len(L)] = Event("resp", cmd.attempt, 200)
              /\ Len(A) = cmd.attempt + 1
              /\ Dispatches(L) = cmd.attempt + 1
              /\ cmd.attempt < MaxRetries
              /\ \A j \in 1..(Len(A) - 1) : Transient(A[j]) /\ A[j].attempt = j - 1
         /\ \A j \in DOMAIN L :
              (L[j].ev = "resp" /\ L[j].val = 200) => (j = Len(L) /\ r.done /\ r.ok)
         /\ (Len(A) = MaxRetries /\ \A j \in DOMAIN A : Transient(A[j])) =>
              /\ r.done
              /\ ~r.ok
              /\ Dispatches(L) = MaxRetries
              /\ r.err = IF A[Len(A)].val = 429
                         THEN APIError(429, TRUE, FALSE, FALSE)
                         ELSE APIError(0, FALSE, FALSE, TRUE)

C26_Witness ==
    \E c \in DOMAIN cmds :
      /\ cmds[c].ret.done
      /\ cmds[c].ret.ok
      /\ cmds[c].attempt = 2
      /\ Answers(cmds[c].log)[1].val = 429
      /\ Answers(cmds[c].log)[2].val = 0

\* C27: the model field of every request dispatched in a session is the
\* model the user selected, Model.apiModels[Model.selectedModel] as stored
\* in config.APIModel, whichever provider was selected.
C27_SelectedModelSent ==
    \A m \in envelopes :
      /\ m = config.APIModel
      /\ m = apiModels[menu.selectedModel + 1]

\* the provider types a configuration can hold: the selectable ones, the
\* empty string of a fresh configuration, and one no client exists for
ConfigurableTypes == {APITypeDeepseek, APITypeChatGPT, APITypeGemini, "", "claude"}

\* C28: CreateDocumentationClient returns a client and no error exactly
\* for deepseek and chatgpt, and an error and no client for every other
\* type; a session that has left the key screen has a client of one of
\* these two types, and a session in which the creation failed holds the
\* error, has no client, is still at the key screen and has sent nothing.
C28_ClientOnlyForSupported ==
    /\ \A t \in ConfigurableTypes :
         LET made == CreateDocumentationClient(t)
         IN /\ made.client <=> t \in {APITypeDeepseek, APITypeChatGPT}
            /\ made.client <=> made.err = "none"
    /\ (~quit /\ state \notin {StateInit, StateSelectAPIType, StateSelectAPIModel,
                               StateEnterAPIKey}) =>
          /\ config.APIType \in {APITypeDeepseek, APITypeChatGPT}
          /\ menu.apiClient
          /\ \A j \in DOMAIN errors : errors[j].op # "client"
    /\ (~quit /\ \E j \in DOMAIN errors : errors[j].op = "client") =>
          /\ config.APIType = APITypeGemini
          /\ state = StateEnterAPIKey
          /\ ~menu.apiClient
          /\ \A j \in DOMAIN errors : errors[j] = ErrorEntry("client", <<>>, "coming soon")
          /\ reqs = 0
          /\ cmds = <<>>
    /\ (~quit /\ state = StateEnterAPIKey /\ config.APIType = APITypeGemini) => ~menu.apiClient

C28_Witness ==
    /\ ~quit
    /\ state = StateEnterAPIKey
    /\ config.APIType = APITypeGemini
    /\ config.APIModel = "gemini-1.5-pro"
    /\ Len(errors) = 2
    /\ errors[2].op = "client"

\* C30: processedFiles is never negative and never above the length of the
\* loaded file list.
C30_CountWithinTotal ==
    /\ 0 <= processedFiles
    /\ processedFiles <= Len(files)

\* the indices of the entries of a walk that are files, in walk order
FileIndices(entries) ==
    SelectSeq([i \in 1..Len(entries) |-> i], LAMBDA i : entries[i].kind = "file")

\* C29: a walk fails only when an entry could not be visited, never because
\* of a file's size or because a file could not be read; a walk that did
\* not fail returns exactly the files among the entries, in walk order,
\* each with its size, and with empty content when its size is at or above
\* the ceiling or it could not be read, and with its content otherwise.
C29_OversizeIncluded ==
    walk.done =>
      LET es == walk.entries
          idx == FileIndices(es)
      IN /\ walk.err <=> \E i \in DOMAIN es : es[i].kind = "broken"
         /\ ~walk.err =>
              /\ Len(walk.files) = Len(idx)
              /\ \A j \in DOMAIN idx :
                   LET e == es[idx[j]]
                       f == walk.files[j]
                   IN /\ f.Path = SourcePath(idx[j])
                      /\ f.Size = e.size
                      /\ ~f.IsDir
                      /\ e.size >= 5242880 => f.Content = ""
                      /\ ~e.readable => f.Content = ""
                      /\ (e.size < 5242880 /\ e.readable) => f.Content = "text"

C29_Witness ==
    /\ walk.done
    /\ ~walk.err
    /\ Len(walk.entries) = 2
    /\ walk.entries[1] = [kind |-> "file", size |-> 5242880, readable |-> TRUE]
    /\ walk.entries[2] = [kind |-> "file", size |-> 5242879, readable |-> FALSE]
    /\ Len(walk.files) = 2
    /\ walk.files[1].Content = ""
    /\ walk.files[2].Content = ""

\* C31: once Update has stored an empty file list that the walk supplied,
\* the session eventually is done, has written the summary files and has
\* dispatched no request.
C31_EmptyListFinishes ==
    []((/\ state = StateProcessing
        /\ tree = 0
        /\ \E c \in DOMAIN cmds :
             cmds[c].kind = "continueProcessing" /\ cmds[c].files = <<>>)
       => <>(state = StateDone /\ finalized = 1 /\ reqs = 0))

\* C32: a call sleeps only between two attempts: its log holds no sleep,
\* neither the 429 wait nor the backoff, after the answer to its last
\* permitted attempt, the one with index MaxRetries-1.
C32_NoWaitAfterLastAttempt ==
    \A c \in DOMAIN cmds :
      \A j \in DOMAIN cmds[c].log :
        cmds[c].log[j].ev \in {"ratelimit", "backoff"} =>
           cmds[c].log[j].attempt < MaxRetries - 1

\* C33: in a running session over an output root that was empty at its
\* start, the destination of a file exists only if the step of that file
\* completed: Update has handled its completed outcome or the command of
\* the step has ended with it.
C33_FailureLeavesNoArtifact ==
    ~quit =>
      \A i \in 1..tree :
        Exists(fs, Artifact(i)) =>
           \/ \E j \in DOMAIN events :
                events[j].path = SourcePath(i) /\ events[j].kind = "completed"
           \/ \E c \in DOMAIN cmds :
                /\ cmds[c].pc = "done"
                /\ cmds[c].msg = fileProcessedMsg(SourcePath(i), "completed")

\* C34: no step overwrites or deletes a file of the output root: every
\* file that exists before a step exists after it with the same content.
C34_NeverOverwritten ==
    [][\A d \in DOMAIN fs : d \in DOMAIN fs' /\ fs'[d] = fs[d]]_vars

\* the elements of a list of model names
Elements(list) == {list[j] : j \in DOMAIN list}

\* C35: in a running session the highlighted provider index is within
\* api.APITypes(), the offered model list is the list of the highlighted
\* provider and the model index is within it; once the provider is
\* confirmed it is the highlighted one, and once the model is confirmed it
\* is one of the models of the confirmed provider, the highlighted one.
C35_ModelOfProvider ==
    /\ menu.selectedAPIType \in 0..(Len(APITypes) - 1)
    /\ menu.apiModels = APIModelMap(APITypes[menu.selectedAPIType + 1])
    /\ menu.selectedModel \in 0..(Len(menu.apiModels) - 1)
    /\ (~quit /\ state \notin {StateInit, StateSelectAPIType}) =>
          config.APIType = APITypes[menu.selectedAPIType + 1]
    /\ (~quit /\ state \notin {StateInit, StateSelectAPIType, StateSelectAPIModel}) =>
          /\ config.APIModel \in Elements(APIModelMap(config.APIType))
          /\ config.APIModel = APIModelMap(config.APIType)[menu.selectedModel + 1]

C35_Witness ==
    /\ ~quit
    /\ state = StateEnterAPIKey
    /\ config.APIType = APITypeChatGPT
    /\ config.APIModel = "gpt-4o"
    /\ menu.selectedAPIType = 1
    /\ menu.selectedModel = 3

\* C36: a call of makeAPIRequest that has returned gave back a response or
\* an error, whatever MaxRetries is; with MaxRetries zero or negative the
\* session dispatches no request, a call's log stays empty, and a step that
\* got as far as GenerateDocumentation ends with the call having returned
\* the error "failed after N attempts" and no response, the file failed.
C36_NoAttemptsIsAnError ==
    /\ \A c \in DOMAIN cmds :
         cmds[c].ret.done => (cmds[c].ret.ok \/ ~cmds[c].ret.err.isNil)
    /\ MaxRetries <= 0 =>
         /\ reqs = 0
         /\ envelopes = {}
         /\ \A c \in DOMAIN cmds :
              /\ cmds[c].log = <<>>
              /\ cmds[c].pc \notin {"attempt", "awaiting"}
              /\ (cmds[c].pc = "done" /\ cmds[c].msg.entry.op = "generate") =>
                    /\ cmds[c].ret.done
                    /\ ~cmds[c].ret.ok
                    /\ cmds[c].ret.err = AttemptsError
                    /\ cmds[c].msg.kind = "failed"
                    /\ cmds[c].msg.entry.cause = "attempts"

C36_Witness ==
    /\ MaxRetries < 0
    /\ state = StateDone
    /\ reqs = 0
    /\ Len(errors) = 1
    /\ errors[1] = ErrorEntry("generate", SourcePath(1), "attempts")

====
